---- MODULE Spec2Model ----
(***************************************************************************)
(* Post-provision readiness-gate protocol of cloud-on-k8s: the job process *)
(* (doRun / Run / runElasticsearchJob), the Pod-condition reconciler and   *)
(* the Kubernetes object store they share.                                 *)
(***************************************************************************)
EXTENDS Integers, Sequences, FiniteSets, TLC

\* ------------------------------------------------------------------ bounds
\* longest apiCalls list of a job definition
MaxCalls == 2
\* largest clientConf.retryAttempts
MaxRetryAttempts == 2
\* the latest time the clock reaches
MaxClock == 1
\* times the job process is run again after it ended
MaxReruns == 1
\* calls of the Set functions of the annotation package on one object
MaxSetCalls == 2
\* longest list of Pods that List returns for the target
MaxPods == 2

\* ------------------------------------------------------- program constants
\* retry.DefaultRetry.Steps, the budget of annotateAsDone
DefaultRetrySteps == 5
\* the Factor that ToBackoff sets
BackoffFactor == 2
\* the Jitter that ToBackoff sets, 0.5, in hundredths
BackoffJitter == 50
\* the Jitter of retry.DefaultRetry, 0.1, in hundredths
DefaultRetryJitter == 10
\* network.HTTPPort, the port of the Pod address
HTTPPort == 9200

\* ------------------------------------------------------------------ errors
Err(tag, code) == [tag |-> tag, code |-> code]
NilErr == Err("nil", 0)
errRetry == Err("retry", 0)
errResourceDeleted == Err("resource deleted", 0)
errNoAvailablePods == Err("no available Elasticsearch pods", 0)
errInterrupted == Err("interrupted by signal", 0)
errJobSucceeded == Err("job succeeded", 0)
errRequestFailed == Err("request failed", 0)
errStatusCode(code) == Err("request failed with status code", code)
errWatch == Err("failed to watch object", 0)
errConflict == Err("conflict", 0)
errNotFound == Err("not found", 0)
errAPI == Err("api error", 0)
errK8sClient == Err("failed to create Kubernetes client", 0)
errVersion == Err("failed to parse Elasticsearch version", 0)

\* ------------------------------------------------------- job definition
StatusCodes == {200, 404}
SuccessCodeLists == {<<>>, <<200>>, <<200, 404>>}
APICalls == [successCodes : SuccessCodeLists, retry : BOOLEAN]
NilClientConf == [isNil |-> TRUE, retryAttempts |-> 0, retryBackoff |-> 0, retryMaxDuration |-> 0]
ClientConfs ==
    {NilClientConf} \cup
    [isNil : {FALSE}, retryAttempts : 0..MaxRetryAttempts,
     retryBackoff : {1}, retryMaxDuration : {0, 1}]

IsSuccessfulFirstOnly(ac, code) ==
    ac.successCodes # <<>> /\ ac.successCodes[1] = code

\* APICall.IsSuccessful
IsSuccessful(ac, code) ==
    \E i \in 1..Len(ac.successCodes) : ac.successCodes[i] = code

ToBackoffTwoSteps(cc) ==
    IF cc.isNil
    THEN [Steps |-> 2, Duration |-> 0, Factor |-> 0, Jitter |-> 0, Cap |-> 0]
    ELSE [Steps |-> cc.retryAttempts, Duration |-> cc.retryBackoff,
          Factor |-> BackoffFactor, Jitter |-> BackoffJitter,
          Cap |-> cc.retryMaxDuration]

ToBackoffCapAsDuration(cc) ==
    IF cc.isNil
    THEN [Steps |-> 1, Duration |-> 0, Factor |-> 0, Jitter |-> 0, Cap |-> 0]
    ELSE [Steps |-> cc.retryAttempts, Duration |-> cc.retryMaxDuration,
          Factor |-> BackoffFactor, Jitter |-> BackoffJitter,
          Cap |-> cc.retryBackoff]

\* ClientConf.ToBackoff
ToBackoff(cc) ==
    IF cc.isNil
    THEN [Steps |-> 1, Duration |-> 0, Factor |-> 0, Jitter |-> 0, Cap |-> 0]
    ELSE [Steps |-> cc.retryAttempts, Duration |-> cc.retryBackoff,
          Factor |-> BackoffFactor, Jitter |-> BackoffJitter,
          Cap |-> cc.retryMaxDuration]

\* wait.Backoff.Step as called by the retry loop between two attempts
BackoffStep(b) ==
    IF b.Steps < 1 THEN b
    ELSE IF b.Factor # 0
         THEN IF b.Cap > 0 /\ b.Duration * b.Factor > b.Cap
              THEN [b EXCEPT !.Steps = 0, !.Duration = b.Cap]
              ELSE [b EXCEPT !.Steps = b.Steps - 1, !.Duration = b.Duration * b.Factor]
         ELSE [b EXCEPT !.Steps = b.Steps - 1]

\* the outcome of one request: a transport failure or a status code
Responses == [failed : {TRUE}, code : {0}] \cup [failed : {FALSE}, code : StatusCodes]

\* a response that ends a call well: it arrived and its status is one of the
\* call's successCodes
ResponseOk(resp, ac) ==
    ~resp.failed /\ resp.code \in {ac.successCodes[k] : k \in 1..Len(ac.successCodes)}

\* the failure of a response as makeESRequest logs it: the transport error
\* or the status code outside successCodes (NilErr for a success)
Failure(resp, ac) ==
    IF resp.failed THEN errRequestFailed
    ELSE IF ResponseOk(resp, ac) THEN NilErr
    ELSE errStatusCode(resp.code)

makeESRequestAlwaysRetry(ac, resp) ==
    IF resp.failed THEN errRetry
    ELSE IF IsSuccessful(ac, resp.code) THEN NilErr
         ELSE errRetry

\* makeESRequest: the error one attempt returns
makeESRequest(ac, resp) ==
    IF resp.failed
    THEN IF ac.retry THEN errRetry ELSE errRequestFailed
    ELSE IF IsSuccessful(ac, resp.code) THEN NilErr
         ELSE IF ac.retry THEN errRetry ELSE errStatusCode(resp.code)

\* the retriable predicate issueAPICalls hands to retry.OnError
IsRetriable(e) == e = errRetry

OnErrorAfterRetryAll(b, lastErr, e, retriable) ==
    IF e = NilErr THEN [done |-> TRUE, err |-> NilErr, backoff |-> b, lastErr |-> lastErr]
    ELSE IF b.Steps = 1 THEN [done |-> TRUE, err |-> e, backoff |-> b, lastErr |-> e]
    ELSE LET nb == BackoffStep(b) IN
         IF nb.Steps > 0
         THEN [done |-> FALSE, err |-> NilErr, backoff |-> nb, lastErr |-> e]
         ELSE [done |-> TRUE, err |-> e, backoff |-> nb, lastErr |-> e]

OnErrorAfterSwallow(b, lastErr, e, retriable) ==
    IF e = NilErr \/ ~retriable
    THEN [done |-> TRUE, err |-> NilErr, backoff |-> b, lastErr |-> lastErr]
    ELSE IF b.Steps = 1 THEN [done |-> TRUE, err |-> e, backoff |-> b, lastErr |-> e]
    ELSE LET nb == BackoffStep(b) IN
         IF nb.Steps > 0
         THEN [done |-> FALSE, err |-> NilErr, backoff |-> nb, lastErr |-> e]
         ELSE [done |-> TRUE, err |-> e, backoff |-> nb, lastErr |-> e]

\* retry.OnError after one attempt returned e: whether the loop ends, with
\* which error, and the loop state carried to the next attempt
OnErrorAfter(b, lastErr, e, retriable) ==
    IF e = NilErr THEN [done |-> TRUE, err |-> NilErr, backoff |-> b, lastErr |-> lastErr]
    ELSE IF ~retriable THEN [done |-> TRUE, err |-> e, backoff |-> b, lastErr |-> lastErr]
    ELSE IF b.Steps = 1 THEN [done |-> TRUE, err |-> e, backoff |-> b, lastErr |-> e]
    ELSE LET nb == BackoffStep(b) IN
         IF nb.Steps > 0
         THEN [done |-> FALSE, err |-> NilErr, backoff |-> nb, lastErr |-> e]
         ELSE [done |-> TRUE, err |-> e, backoff |-> nb, lastErr |-> e]

\* ------------------------------------------------------------ annotations
PostProvisionCompleteAnnotation == "eck.k8s.elastic.co/post-provision-complete"
PostProvisionReadinessGateAnnotation == "eck.k8s.elastic.co/post-provision-readiness-gate"
BootstrappedAnnotation == "eck.k8s.elastic.co/bootstrapped"
BootstrapReadinessGateAnnotation == "eck.k8s.elastic.co/bootstrap-readiness-gate"
OtherAnnotation == "example.org/other"
AnnKeys == {PostProvisionCompleteAnnotation, PostProvisionReadinessGateAnnotation,
            BootstrappedAnnotation, BootstrapReadinessGateAnnotation, OtherAnnotation}
\* the value that stands for a key the annotation map does not hold
Absent == "<absent>"
NoAnnotations == [k \in AnnKeys |-> Absent]
\* Go's map lookup: the zero value for a missing key
Lookup(ann, k) == IF ann[k] = Absent THEN "" ELSE ann[k]
AnnLen(ann) == Cardinality({k \in AnnKeys : ann[k] # Absent})

SetPostProvisionCompleteToggle(obj) ==
    IF obj.isNil THEN obj
    ELSE [obj EXCEPT !.ann = [obj.ann EXCEPT ![PostProvisionCompleteAnnotation] =
                                  IF @ = "true" THEN "false" ELSE "true"]]

SetPostProvisionCompleteFreshMap(obj) ==
    IF obj.isNil THEN obj
    ELSE [obj EXCEPT !.ann = [NoAnnotations EXCEPT ![PostProvisionCompleteAnnotation] = "true"]]

\* SetPostProvisionComplete (annotation/postprovision.go), on an object
\* [isNil, ann, stale]: the object after the call
SetPostProvisionComplete(obj) ==
    IF obj.isNil THEN obj
    ELSE [obj EXCEPT !.ann = [obj.ann EXCEPT ![PostProvisionCompleteAnnotation] = "true"]]

IsPostProvisionCompleteNonEmpty(ann) ==
    IF AnnLen(ann) = 0 THEN FALSE
    ELSE Lookup(ann, PostProvisionCompleteAnnotation) # ""

\* IsPostProvisionComplete (annotation/postprovision.go)
IsPostProvisionComplete(ann) ==
    IF AnnLen(ann) = 0 THEN FALSE
    ELSE Lookup(ann, PostProvisionCompleteAnnotation) = "true"

\* GetPostProvisionReadinessGate, of the annotation package the requeue
\* variant of the reconciler uses
GetPostProvisionReadinessGate(ann) ==
    IF AnnLen(ann) = 0 THEN "" ELSE Lookup(ann, PostProvisionReadinessGateAnnotation)

\* IsPostProvisionComplete of that package: complete when no gate is named
IsPostProvisionCompleteGated(ann) ==
    IF GetPostProvisionReadinessGate(ann) = "" THEN TRUE
    ELSE Lookup(ann, PostProvisionCompleteAnnotation) = "true"

\* GetBootstrapReadinessGate
GetBootstrapReadinessGate(ann) ==
    IF AnnLen(ann) = 0 THEN "" ELSE Lookup(ann, BootstrapReadinessGateAnnotation)

\* IsBootstrapped
IsBootstrapped(ann) ==
    IF GetBootstrapReadinessGate(ann) = "" THEN TRUE
    ELSE Lookup(ann, BootstrappedAnnotation) = "true"

SetBootstrappedSharedKey(obj) ==
    IF obj.isNil THEN obj
    ELSE [obj EXCEPT !.ann = [obj.ann EXCEPT ![BootstrappedAnnotation] = "true",
                                             ![PostProvisionCompleteAnnotation] = "true"]]

\* SetBootstrapped, on an object [isNil, ann, stale]: the object after the
\* call
SetBootstrapped(obj) ==
    IF obj.isNil THEN obj
    ELSE [obj EXCEPT !.ann = [obj.ann EXCEPT ![BootstrappedAnnotation] = "true"]]

\* the annotation maps the functions of the annotation package are given:
\* every key absent, empty or set, the completion keys with the values of
\* the tests
CompletionValues == {Absent, "", "true", "false", "True", "rubbish"}
GateValues == {Absent, "", "mygate"}
AnnMaps ==
    {a \in [AnnKeys -> CompletionValues \cup GateValues \cup {"x"}] :
        /\ a[PostProvisionCompleteAnnotation] \in CompletionValues
        /\ a[BootstrappedAnnotation] \in CompletionValues
        /\ a[PostProvisionReadinessGateAnnotation] \in GateValues
        /\ a[BootstrapReadinessGateAnnotation] \in GateValues
        /\ a[OtherAnnotation] \in {Absent, "x"}}

\* ------------------------------------------------------------------ state
VARIABLES
    jd,     \* the loaded job definition (immutable)
    es,     \* the stored Elasticsearch resource: [exists, specGate, ann]
    grp,    \* doRun: the errgroup, its context, the signal worker
    job,    \* the job worker: position and locals of runElasticsearchJob
    wt,     \* waitForElasticsearch: informer, handler, result channel
    hist,   \* per-call record of what issueAPICalls has sent
    pod,    \* the stored Pod: [exists, labelled, specGate, phase, conds]
    rec,    \* the reconciler: pending watch events, work queue, one run
    now     \* the clock time.Now() reads

vars == <<jd, es, grp, job, wt, hist, pod, rec, now>>

\* a copy of a stored object as a client read it; stale once the stored
\* object has a newer resource version than the copy
NoObj == [isNil |-> TRUE, ann |-> NoAnnotations, stale |-> FALSE]
NoBackoff == [Steps |-> 0, Duration |-> 0, Factor |-> 0, Jitter |-> 0, Cap |-> 0]
\* retry.DefaultRetry
DefaultRetry ==
    [Steps |-> DefaultRetrySteps, Duration |-> 1, Factor |-> 1,
     Jitter |-> DefaultRetryJitter, Cap |-> 0]

JobInit ==
    [pc |-> "start", stage |-> "none", err |-> NilErr, callIdx |-> 0,
     backoff |-> NoBackoff, lastErr |-> NilErr, obj |-> NoObj]
GrpInit ==
    [ctxDone |-> FALSE, signalled |-> FALSE, sigWorker |-> "running",
     err |-> NilErr, returned |-> FALSE, exit |-> NilErr, panicked |-> FALSE,
     runs |-> 0]
WtInit ==
    [informer |-> "none", expired |-> FALSE, returned |-> FALSE,
     result |-> <<>>, closed |-> FALSE, hpc |-> "idle", hval |-> NilErr,
     deleteSeen |-> FALSE, sawGreen |-> FALSE]
HistInit ==
    [attempts |-> [i \in 1..MaxCalls |-> 0],
     outcome |-> [i \in 1..MaxCalls |-> "none"],
     good |-> [i \in 1..MaxCalls |-> FALSE],
     lastFailure |-> NilErr, issued |-> "none", annWrites |-> 0,
     retriedAfterCancel |-> FALSE, succeeded |-> {}]

CallLists == UNION {[1..n -> APICalls] : n \in 0..MaxCalls}
JobDefs == [clientConf : ClientConfs, apiCalls : CallLists]

EsInit(gate, specGate) ==
    [exists |-> TRUE, specGate |-> specGate,
     ann |-> [NoAnnotations EXCEPT ![PostProvisionReadinessGateAnnotation] = gate]]

\* the process is running: a panic of any goroutine ends all of them
Alive == ~grp.panicked /\ ~grp.returned

WaitCtxDoneNoCancel == wt.expired \/ grp.ctxDone

\* the context the waiter and its handler use: the timeout context made in
\* waitForElasticsearch, done on expiry, on return and with its parent
WaitCtxDone == wt.expired \/ wt.returned \/ grp.ctxDone

\* errgroup.Group.Go: what the group keeps when a worker returns e
GroupAfter(g, e) ==
    IF e = NilErr \/ g.err # NilErr THEN g
    ELSE [g EXCEPT !.err = e, !.ctxDone = TRUE]

\* the job worker of doRun returns: Run's error, or errJobSucceeded
JobReturns(stage, e) ==
    /\ job' = [JobInit EXCEPT !.pc = "returned", !.stage = stage, !.err = e]
    /\ grp' = GroupAfter(grp, IF e = NilErr THEN errJobSucceeded ELSE e)

RunNextIgnoringWait(stage, e) ==
    IF e # NilErr /\ stage # "wait" THEN "returned"
    ELSE CASE stage = "wait" -> "client"
           [] stage = "client" -> "calls"
           [] stage = "calls" -> "annotate"
           [] OTHER -> "returned"

RunNextIgnoringCalls(stage, e) ==
    IF e # NilErr /\ stage # "calls" THEN "returned"
    ELSE CASE stage = "wait" -> "client"
           [] stage = "client" -> "calls"
           [] stage = "calls" -> "annotate"
           [] OTHER -> "returned"

\* runElasticsearchJob: the step that follows a step that ended with e; an
\* error of any step is returned, and annotateAsDone follows issueAPICalls
RunNext(stage, e) ==
    IF e # NilErr THEN "returned"
    ELSE CASE stage = "wait" -> "client"
           [] stage = "client" -> "calls"
           [] stage = "calls" -> "annotate"
           [] OTHER -> "returned"

\* the job worker after `stage` ended with e
JobAfter(stage, e) ==
    LET nx == RunNext(stage, e) IN
    IF nx = "returned" THEN JobReturns(stage, e)
    ELSE /\ job' = CASE nx = "client" -> [job EXCEPT !.pc = "client"]
                     [] nx = "calls" -> [job EXCEPT !.pc = "enter", !.callIdx = 1]
                     [] OTHER -> [job EXCEPT !.pc = "annget", !.backoff = DefaultRetry,
                                             !.lastErr = NilErr]
         /\ UNCHANGED grp

\* ------------------------------------------------- doRun and its workers
\* an interrupt signal arrives: signals.SetupSignalHandler closes its channel
Signal ==
    /\ Alive /\ ~grp.signalled
    /\ grp' = [grp EXCEPT !.signalled = TRUE]
    /\ UNCHANGED <<jd, es, job, wt, hist, pod, rec, now>>

\* the signal worker's select: ctx.Done() returns nil, signalChan returns
\* errInterrupted; with both ready either case may be taken
SigWorkerReturn ==
    /\ Alive /\ grp.sigWorker = "running"
    /\ \/ /\ grp.ctxDone
          /\ grp' = [grp EXCEPT !.sigWorker = "done"]
       \/ /\ grp.signalled
          /\ grp' = [GroupAfter(grp, errInterrupted) EXCEPT !.sigWorker = "done"]
    /\ UNCHANGED <<jd, es, job, wt, hist, pod, rec, now>>

\* g.Wait() returns once both workers have returned; doRun maps
\* errJobSucceeded to success
DoRunReturn ==
    /\ Alive /\ grp.sigWorker = "done" /\ job.pc = "returned"
    /\ grp' = [grp EXCEPT !.returned = TRUE, !.ctxDone = TRUE,
                          !.exit = IF grp.err = errJobSucceeded THEN NilErr ELSE grp.err]
    /\ UNCHANGED <<jd, es, job, wt, hist, pod, rec, now>>

\* the process has ended, by return or by panic, and the job is run again
\* with the same definition
Rerun ==
    /\ grp.returned \/ grp.panicked
    /\ grp.runs < MaxReruns
    /\ grp' = [GrpInit EXCEPT !.runs = grp.runs + 1]
    /\ job' = JobInit
    /\ wt' = WtInit
    /\ hist' = [HistInit EXCEPT !.annWrites = hist.annWrites,
                                !.succeeded = hist.succeeded]
    /\ UNCHANGED <<jd, es, pod, rec, now>>

\* ---------------------------------------------------- waitForElasticsearch
\* Run and the head of waitForElasticsearch: the client is built, the result
\* channel made and the watch started, or one of the two set-ups fails
JobStart ==
    /\ Alive /\ job.pc = "start"
    /\ \/ /\ job' = [job EXCEPT !.pc = "wait"]
          /\ wt' = [wt EXCEPT !.informer = "running"]
          /\ UNCHANGED grp
       \/ /\ JobReturns("start", errK8sClient)
          /\ UNCHANGED wt
       \/ /\ JobReturns("wait", errWatch)
          /\ wt' = [wt EXCEPT !.returned = TRUE, !.closed = TRUE]
    /\ UNCHANGED <<jd, es, hist, pod, rec, now>>

\* the deadline of the timeout context passes
WaitExpires ==
    /\ Alive /\ job.pc = "wait" /\ ~wt.expired
    /\ wt' = [wt EXCEPT !.expired = TRUE]
    /\ UNCHANGED <<jd, es, grp, job, hist, pod, rec, now>>

\* cache.Start(ctx.Done()) ends once the context is done
InformerStop ==
    /\ Alive /\ wt.informer = "running" /\ WaitCtxDone
    /\ wt' = [wt EXCEPT !.informer = "stopped"]
    /\ UNCHANGED <<jd, es, grp, job, hist, pod, rec, now>>

\* the informer hands one event to the handler: an add or update of the
\* target, an event of another resource of the namespace (filtered out by
\* name), or the target's delete
InformerDeliver ==
    /\ Alive /\ wt.informer = "running" /\ wt.hpc = "idle"
    /\ \/ /\ es.exists
          /\ wt' = [wt EXCEPT !.hpc = "check"]
       \/ UNCHANGED wt
       \/ /\ ~es.exists /\ ~wt.deleteSeen
          /\ wt' = [wt EXCEPT !.deleteSeen = TRUE,
                              !.hpc = "send", !.hval = errResourceDeleted]
    /\ UNCHANGED <<jd, es, grp, job, hist, pod, rec, now>>

\* checkESReady after the name filter: build the client, query the health;
\* only a green health goes on to the send. With the context done the
\* client's requests fail.
HealthOutcomes == {"client error", "health error", "yellow", "green"}

IsGreenOrYellow(h) == h \in {"green", "yellow"}

\* h.Status == esv1.ElasticsearchGreenHealth
IsGreen(h) == h = "green"

HandlerCheck ==
    /\ Alive /\ wt.hpc = "check"
    /\ \E h \in HealthOutcomes :
          /\ WaitCtxDone => h \in {"client error", "health error"}
          /\ wt' = IF IsGreen(h)
                   THEN [wt EXCEPT !.hpc = "send", !.hval = NilErr,
                                   !.sawGreen = @ \/ h = "green"]
                   ELSE [wt EXCEPT !.hpc = "idle", !.sawGreen = @ \/ h = "green"]
    /\ UNCHANGED <<jd, es, grp, job, hist, pod, rec, now>>

\* result <- esHolder{...}: a send on the closed channel panics, a send on
\* the full channel blocks
HandlerSend ==
    /\ Alive /\ wt.hpc = "send"
    /\ \/ /\ wt.closed
          /\ grp' = [grp EXCEPT !.panicked = TRUE]
          /\ UNCHANGED wt
       \/ /\ ~wt.closed /\ Len(wt.result) < 1
          /\ wt' = [wt EXCEPT !.result = Append(@, wt.hval), !.hpc = "idle"]
          /\ UNCHANGED grp
    /\ UNCHANGED <<jd, es, job, hist, pod, rec, now>>

\* r := <-result, then the deferred cancelFunc and close(result); back in
\* runElasticsearchJob an error of the wait is returned. A handler that is
\* already parked in its send on the full channel is released by the
\* receive: its value goes into the buffer, which nobody reads again and the
\* state does not keep. A handler that has not yet reached its send finds the
\* channel closed.
WaitReceive ==
    /\ Alive /\ job.pc = "wait" /\ wt.result # <<>>
    /\ \/ wt' = [wt EXCEPT !.result = Tail(@), !.returned = TRUE, !.closed = TRUE]
       \/ /\ wt.hpc = "send"
          /\ wt' = [wt EXCEPT !.result = Tail(@), !.hpc = "idle",
                              !.returned = TRUE, !.closed = TRUE]
    /\ JobAfter("wait", Head(wt.result))
    /\ UNCHANGED <<jd, es, hist, pod, rec, now>>

\* ------------------------------------------------ getElasticsearchClient
ClientErrors == {errNoAvailablePods, errVersion, errAPI}
JobGetClient ==
    /\ Alive /\ job.pc = "client"
    /\ \E e \in ClientErrors \cup {NilErr} :
          /\ grp.ctxDone => e = errAPI
          /\ JobAfter("client", e)
    /\ UNCHANGED <<jd, es, wt, hist, pod, rec, now>>

\* ------------------------------------------------------------ issueAPICalls
\* the head of one iteration of the for loop: past the last call
\* issueAPICalls returns nil and annotateAsDone starts; otherwise the backoff
\* is derived from clientConf and retry.OnError runs its loop, which makes no
\* attempt when the backoff has no step
JobEnterCall ==
    /\ Alive /\ job.pc = "enter"
    /\ IF job.callIdx > Len(jd.apiCalls)
       THEN /\ JobAfter("calls", NilErr)
            /\ hist' = [hist EXCEPT !.issued = "ok"]
       ELSE LET b == ToBackoff(jd.clientConf) IN
            /\ UNCHANGED grp
            /\ IF b.Steps > 0
               THEN /\ job' = [job EXCEPT !.pc = "attempt", !.backoff = b, !.lastErr = NilErr]
                    /\ UNCHANGED hist
               ELSE /\ job' = [job EXCEPT !.callIdx = @ + 1, !.backoff = b, !.lastErr = NilErr]
                    /\ hist' = [hist EXCEPT !.outcome[job.callIdx] = "skipped"]
    /\ UNCHANGED <<jd, es, wt, pod, rec, now>>

\* one attempt of the current call: makeESRequest, then retry.OnError's
\* decision; a request on a context that is done fails in the transport
JobAttempt ==
    /\ Alive /\ job.pc = "attempt"
    /\ \E resp \in Responses :
          /\ grp.ctxDone => resp.failed
          /\ LET i == job.callIdx
                 e == makeESRequest(jd.apiCalls[i], resp)
                 r == OnErrorAfter(job.backoff, job.lastErr, e, IsRetriable(e))
             IN /\ hist' = [hist EXCEPT !.attempts[i] = @ + 1,
                                        !.lastFailure = Failure(resp, jd.apiCalls[i]),
                                        !.good[i] = ResponseOk(resp, jd.apiCalls[i]),
                                        !.issued = IF r.done /\ r.err # NilErr
                                                   THEN "failed" ELSE @,
                                        !.outcome[i] = IF ~r.done THEN "retrying"
                                                       ELSE IF r.err = NilErr THEN "ok"
                                                       ELSE "failed",
                                        !.retriedAfterCancel = @ \/ (grp.ctxDone /\ hist.attempts[i] > 0),
                                        !.succeeded = IF ResponseOk(resp, jd.apiCalls[i])
                                                      THEN @ \cup {i} ELSE @]
                /\ IF ~r.done
                   THEN job' = [job EXCEPT !.backoff = r.backoff, !.lastErr = r.lastErr]
                        /\ UNCHANGED grp
                   ELSE IF r.err = NilErr
                   THEN job' = [job EXCEPT !.pc = "enter", !.callIdx = i + 1]
                        /\ UNCHANGED grp
                   ELSE JobAfter("calls", r.err)
    /\ UNCHANGED <<jd, es, wt, pod, rec, now>>

\* ------------------------------------------------------------ annotateAsDone
\* c.Get of one attempt: the object as stored, or an error that is no
\* conflict and so ends retry.RetryOnConflict at once
JobAnnGet ==
    /\ Alive /\ job.pc = "annget"
    /\ \/ /\ es.exists /\ ~grp.ctxDone
          /\ job' = [job EXCEPT !.pc = "annupdate",
                                !.obj = [isNil |-> FALSE, ann |-> es.ann, stale |-> FALSE]]
          /\ UNCHANGED grp
       \/ /\ ~es.exists
          /\ JobReturns("annotate", errNotFound)
       \/ JobReturns("annotate", errAPI)
    /\ UNCHANGED <<jd, es, wt, hist, pod, rec, now>>

UpdateErrorNoVersion(stored, stale, ctxDone) ==
    IF ctxDone THEN errAPI
    ELSE IF ~stored.exists THEN errNotFound
    ELSE NilErr

\* the error c.Update returns for a copy of the stored object: a conflict
\* when the copy's resource version is no longer the stored one
UpdateError(stored, stale, ctxDone) ==
    IF ctxDone THEN errAPI
    ELSE IF ~stored.exists THEN errNotFound
    ELSE IF stale THEN errConflict
    ELSE NilErr

\* SetPostProvisionComplete and c.Update of one attempt, then
\* retry.RetryOnConflict's decision
JobAnnUpdate ==
    /\ Alive /\ job.pc = "annupdate"
    /\ LET obj == SetPostProvisionComplete(job.obj)
           ue == UpdateError(es, obj.stale, grp.ctxDone)
       IN \E e \in {ue, errAPI} :
             LET r == OnErrorAfter(job.backoff, job.lastErr, e, e = errConflict) IN
             /\ IF e = NilErr
                THEN /\ es' = [es EXCEPT !.ann = obj.ann]
                     /\ hist' = [hist EXCEPT !.annWrites = @ + 1]
                     /\ rec' = [rec EXCEPT !.esEvent = TRUE]
                ELSE UNCHANGED <<es, hist, rec>>
             /\ IF r.done
                THEN JobReturns("annotate", r.err)
                ELSE job' = [job EXCEPT !.pc = "annget", !.backoff = r.backoff,
                                        !.lastErr = r.lastErr, !.obj = NoObj]
                     /\ UNCHANGED grp
    /\ UNCHANGED <<jd, wt, pod, now>>

\* ------------------------------------------------------- other clients
\* another client updates the stored resource (not its completion
\* annotation): the copy the job holds becomes stale
EsExternalWrite ==
    /\ es.exists
    /\ es' = [es EXCEPT !.ann[OtherAnnotation] = IF @ = Absent THEN "x" ELSE Absent]
    /\ job' = [job EXCEPT !.obj.stale = ~job.obj.isNil]
    /\ rec' = [rec EXCEPT !.esEvent = TRUE]
    /\ UNCHANGED <<jd, grp, wt, hist, pod, now>>

\* the target resource is deleted
EsDelete ==
    /\ es.exists
    /\ es' = [es EXCEPT !.exists = FALSE]
    /\ rec' = [rec EXCEPT !.esEvent = TRUE]
    /\ UNCHANGED <<jd, grp, job, wt, hist, pod, now>>

\* ------------------------------------------------------------ the Pod
\* postprovision.ReadinessGate, the condition type of the gate
ReadinessGate == "PostProvisionComplete"
PodReady == "Ready"
Cond(type, status, ltt, lpt) ==
    [type |-> type, status |-> status, lastTransitionTime |-> ltt, lastProbeTime |-> lpt]

\* the Pod is changed by another client (the kubelet): a status update that
\* leaves the gate condition alone
PodExternalWrite ==
    /\ pod.exists
    /\ pod' = [pod EXCEPT !.phase = IF @ = "Pending" THEN "Running" ELSE "Pending"]
    /\ rec' = [rec EXCEPT !.podEvent = TRUE, !.stale = (rec.pc = "update")]
    /\ UNCHANGED <<jd, es, grp, job, wt, hist, now>>

\* the Pod is deleted; the Pod watch delivers the delete event
PodDelete ==
    /\ pod.exists
    /\ pod' = [pod EXCEPT !.exists = FALSE]
    /\ rec' = [rec EXCEPT !.podEvent = TRUE]
    /\ UNCHANGED <<jd, es, grp, job, wt, hist, now>>

\* time passes
Tick ==
    /\ now < MaxClock
    /\ now' = now + 1
    /\ UNCHANGED <<jd, es, grp, job, wt, hist, pod, rec>>

\* --------------------------------------------------------- the reconciler
\* addWatches, the Elasticsearch watch: the map function lists the Pods of
\* every node set that declares the gate and enqueues them; a failed List
\* enqueues nothing
EsWatchEvent ==
    /\ rec.esEvent
    /\ \/ rec' = [rec EXCEPT !.esEvent = FALSE,
                             !.queued = @ \/ (es.specGate /\ pod.exists /\ pod.labelled
                                                /\ pod.specGate)]
       \/ /\ es.specGate
          /\ rec' = [rec EXCEPT !.esEvent = FALSE]
    /\ UNCHANGED <<jd, es, grp, job, wt, hist, pod, now>>

\* addWatches, the Pod watch: a Pod with the cluster label and the gate in
\* its spec is enqueued
PodWatchEvent ==
    /\ rec.podEvent
    /\ rec' = [rec EXCEPT !.podEvent = FALSE,
                          !.queued = @ \/ (pod.labelled /\ pod.specGate)]
    /\ UNCHANGED <<jd, es, grp, job, wt, hist, pod, now>>

\* condValue of Reconcile
CondValue(ann) ==
    IF ~IsPostProvisionComplete(ann) THEN "False" ELSE "True"

RECURSIVE SetGateConditionsAlwaysTransition(_, _, _)
SetGateConditionsAlwaysTransition(conds, condValue, t) ==
    IF conds = <<>> THEN <<>>
    ELSE LET c == Head(conds)
             c2 == IF c.type = ReadinessGate THEN Cond(c.type, condValue, t, t) ELSE c
         IN <<c2>> \o SetGateConditionsAlwaysTransition(Tail(conds), condValue, t)

RECURSIVE SetGateConditionsAllTypes(_, _, _)
SetGateConditionsAllTypes(conds, condValue, t) ==
    IF conds = <<>> THEN <<>>
    ELSE LET c == Head(conds)
             c2 == IF c.status # condValue
                   THEN Cond(c.type, condValue, t, t)
                   ELSE [c EXCEPT !.lastProbeTime = t]
         IN <<c2>> \o SetGateConditionsAllTypes(Tail(conds), condValue, t)

\* the loop over pod.Status.Conditions of Reconcile and the append that
\* follows it: the conditions Reconcile hands to the status update
RECURSIVE SetGateConditions(_, _, _)
SetGateConditions(conds, condValue, t) ==
    IF conds = <<>> THEN <<>>
    ELSE LET c == Head(conds)
             c2 == IF c.type = ReadinessGate
                   THEN IF c.status # condValue
                        THEN Cond(c.type, condValue, t, t)
                        ELSE [c EXCEPT !.lastProbeTime = t]
                   ELSE c
         IN <<c2>> \o SetGateConditions(Tail(conds), condValue, t)

ReconcileConditionsAppend(conds, condValue, t) ==
    Append(SetGateConditions(conds, condValue, t), Cond(ReadinessGate, condValue, t, t))

ReconcileConditions(conds, condValue, t) ==
    LET found == \E i \in 1..Len(conds) : conds[i].type = ReadinessGate
        set == SetGateConditions(conds, condValue, t)
    IN IF found THEN set ELSE Append(set, Cond(ReadinessGate, condValue, t, t))

Result(requeue, err) == [requeue |-> requeue, err |-> err]

\* the dispatcher takes the request from the queue and Reconcile runs up to
\* its status update: the two Gets, the early returns, the new conditions.
\* A returned error or a Requeue result puts the request back on the queue.
ReconcileStart ==
    /\ rec.queued /\ rec.pc = "idle"
    /\ \/ /\ ~pod.exists
          /\ rec' = [rec EXCEPT !.result = Result(FALSE, errNotFound)]
       \/ rec' = [rec EXCEPT !.result = Result(FALSE, errAPI)]
       \/ /\ pod.exists /\ ~pod.labelled
          /\ rec' = [rec EXCEPT !.queued = FALSE, !.result = Result(FALSE, NilErr)]
       \/ /\ pod.exists /\ pod.labelled /\ ~es.exists
          /\ rec' = [rec EXCEPT !.queued = FALSE, !.result = Result(FALSE, NilErr)]
       \/ /\ pod.exists /\ pod.labelled /\ es.exists
          /\ rec' = [rec EXCEPT !.queued = FALSE, !.pc = "update", !.stale = FALSE,
                                !.phase = pod.phase,
                                !.conds = ReconcileConditions(pod.conds, CondValue(es.ann), now)]
    /\ UNCHANGED <<jd, es, grp, job, wt, hist, pod, now>>

\* c.Status().Update(&pod) and the return of Reconcile: a conflict asks for
\* a requeue, another error is returned, a success stores the status of the
\* copy Reconcile read, its phase and its conditions
ReconcileUpdate ==
    /\ rec.pc = "update"
    /\ LET ue == UpdateError(pod, rec.stale, FALSE) IN
       \E e \in {ue, errAPI} :
          /\ IF e = NilErr
             THEN pod' = [pod EXCEPT !.conds = rec.conds, !.phase = rec.phase]
             ELSE UNCHANGED pod
          /\ rec' = [rec EXCEPT !.pc = "idle", !.conds = <<>>, !.stale = FALSE,
                                !.phase = "Pending",
                                !.result = IF e = errConflict THEN Result(TRUE, NilErr)
                                           ELSE Result(FALSE, e),
                                !.queued = @ \/ e # NilErr,
                                !.podEvent = @ \/ (e = NilErr /\ rec.conds # pod.conds)]
    /\ UNCHANGED <<jd, es, grp, job, wt, hist, now>>

\* ------------------------------------- the reconciler, requeue variant
\* addWatches of the requeue variant: Pods only, enqueued by cluster label
PodWatchEventRequeue ==
    /\ rec.podEvent
    /\ rec' = [rec EXCEPT !.podEvent = FALSE, !.queued = @ \/ pod.labelled]
    /\ UNCHANGED <<jd, es, grp, job, wt, hist, pod, now>>

\* addWatches of the requeue variant registers no watch on the target: an
\* event of the target reaches no handler and enqueues nothing
EsEventUnwatched ==
    /\ rec.esEvent
    /\ rec' = [rec EXCEPT !.esEvent = FALSE]
    /\ UNCHANGED <<jd, es, grp, job, wt, hist, pod, now>>

\* the loop of the requeue variant: the first condition of type rg that is
\* not True becomes True
RECURSIVE SetFirstTrue(_, _)
SetFirstTrue(conds, rg) ==
    IF conds = <<>> THEN <<>>
    ELSE IF Head(conds).type = rg /\ Head(conds).status # "True"
         THEN <<[Head(conds) EXCEPT !.status = "True"]>> \o Tail(conds)
         ELSE <<Head(conds)>> \o SetFirstTrue(Tail(conds), rg)

\* Reconcile of the requeue variant up to its status update: errors of the
\* two Gets are returned, no gate annotation ends the run, an incomplete
\* target asks for a requeue, and only an existing condition is changed
ReconcileRequeueStart ==
    /\ rec.queued /\ rec.pc = "idle"
    /\ \/ /\ ~pod.exists
          /\ rec' = [rec EXCEPT !.result = Result(FALSE, errNotFound)]
       \/ rec' = [rec EXCEPT !.result = Result(FALSE, errAPI)]
       \/ /\ pod.exists /\ ~pod.labelled
          /\ rec' = [rec EXCEPT !.queued = FALSE, !.result = Result(FALSE, NilErr)]
       \/ /\ pod.exists /\ pod.labelled /\ ~es.exists
          /\ rec' = [rec EXCEPT !.result = Result(FALSE, errNotFound)]
       \/ /\ pod.exists /\ pod.labelled /\ es.exists
          /\ LET rg == GetPostProvisionReadinessGate(es.ann)
                 set == SetFirstTrue(pod.conds, rg)
             IN rec' = IF rg = ""
                       THEN [rec EXCEPT !.queued = FALSE, !.result = Result(FALSE, NilErr)]
                       ELSE IF ~IsPostProvisionCompleteGated(es.ann)
                       THEN [rec EXCEPT !.result = Result(TRUE, NilErr)]
                       ELSE IF set # pod.conds
                       THEN [rec EXCEPT !.queued = FALSE, !.pc = "update",
                                        !.stale = FALSE, !.phase = pod.phase,
                                        !.conds = set]
                       ELSE [rec EXCEPT !.queued = FALSE, !.result = Result(FALSE, NilErr)]
    /\ UNCHANGED <<jd, es, grp, job, wt, hist, pod, now>>

\* Status().Update of the requeue variant: its error, a conflict included,
\* is returned
ReconcileRequeueUpdate ==
    /\ rec.pc = "update"
    /\ LET ue == UpdateError(pod, rec.stale, FALSE) IN
       \E e \in {ue, errAPI} :
          /\ IF e = NilErr
             THEN pod' = [pod EXCEPT !.conds = rec.conds, !.phase = rec.phase]
             ELSE UNCHANGED pod
          /\ rec' = [rec EXCEPT !.pc = "idle", !.conds = <<>>, !.stale = FALSE,
                                !.phase = "Pending",
                                !.result = Result(FALSE, e),
                                !.queued = @ \/ e # NilErr,
                                !.podEvent = @ \/ e = NilErr]
    /\ UNCHANGED <<jd, es, grp, job, wt, hist, now>>

RecInit ==
    [esEvent |-> TRUE, podEvent |-> TRUE, queued |-> FALSE, pc |-> "idle",
     stale |-> FALSE, phase |-> "Pending", conds |-> <<>>,
     result |-> Result(FALSE, NilErr)]

PodInit(specGate, conds) ==
    [exists |-> TRUE, labelled |-> TRUE, specGate |-> specGate,
     phase |-> "Pending", conds |-> conds]

\* ------------------------------------------------------- specifications
\* the job definitions of the combined system
SysCalls == {<<[successCodes |-> <<200>>, retry |-> TRUE]>>,
             <<[successCodes |-> <<200>>, retry |-> FALSE],
               [successCodes |-> <<200, 404>>, retry |-> TRUE]>>}
SysClientConfs ==
    {NilClientConf} \cup
    [isNil : {FALSE}, retryAttempts : {0, MaxRetryAttempts},
     retryBackoff : {1}, retryMaxDuration : {0}]
SysJobDefs == [clientConf : SysClientConfs, apiCalls : SysCalls]

PodConds == {<<>>, <<Cond(ReadinessGate, "False", 0, 0)>>,
             <<Cond(PodReady, "False", 0, 0)>>}

\* the job process, the reconciler, the store and the clock, from the start
\* of doRun with the completion annotation absent
Init ==
    /\ jd \in SysJobDefs
    /\ es = EsInit(ReadinessGate, TRUE)
    /\ grp = GrpInit
    /\ job = JobInit
    /\ wt = WtInit
    /\ hist = HistInit
    /\ \E c \in PodConds : pod = PodInit(TRUE, c)
    /\ rec = RecInit
    /\ now = 0

JobNext ==
    \/ SigWorkerReturn \/ DoRunReturn
    \/ JobStart \/ InformerStop \/ InformerDeliver
    \/ HandlerCheck \/ HandlerSend \/ WaitReceive
    \/ JobGetClient \/ JobEnterCall \/ JobAttempt
    \/ JobAnnGet \/ JobAnnUpdate

ReconcilerNext ==
    \/ EsWatchEvent \/ PodWatchEvent \/ ReconcileStart \/ ReconcileUpdate

Next == JobNext \/ ReconcilerNext \/ Tick

Spec == Init /\ [][Next]_vars

\* the job process under every job definition; the target may be deleted
InitJob ==
    /\ jd \in JobDefs
    /\ es = EsInit(ReadinessGate, TRUE)
    /\ grp = GrpInit
    /\ job = JobInit
    /\ wt = WtInit
    /\ hist = HistInit
    /\ pod = PodInit(TRUE, <<>>)
    /\ rec = RecInit
    /\ now = 0

NextJob == JobNext \/ EsDelete

SpecJob == InitJob /\ [][NextJob]_vars

\* one job definition: a single call under a policy with retries
OneCall == <<[successCodes |-> <<200>>, retry |-> TRUE]>>
OneJobDef ==
    [clientConf |-> [isNil |-> FALSE, retryAttempts |-> MaxRetryAttempts,
                     retryBackoff |-> 1, retryMaxDuration |-> 0],
     apiCalls |-> OneCall]

\* the job process is run again after it ended, next to the reconciler and
\* another writer of the target
InitRerun ==
    /\ jd = OneJobDef
    /\ es = EsInit(ReadinessGate, TRUE)
    /\ grp = GrpInit
    /\ job = JobInit
    /\ wt = WtInit
    /\ hist = HistInit
    /\ pod = PodInit(TRUE, <<>>)
    /\ rec = RecInit
    /\ now = 0

NextRerun == JobNext \/ ReconcilerNext \/ Rerun \/ EsExternalWrite

SpecRerun == InitRerun /\ [][NextRerun]_vars

\* the job process next to another writer of the target, which may also
\* delete it
NextAnnotate == JobNext \/ EsExternalWrite \/ EsDelete

SpecAnnotate == InitRerun /\ [][NextAnnotate]_vars

\* the job process and the reconciler next to other writers of the target
\* and of the Pod
NextWriters == JobNext \/ ReconcilerNext \/ EsExternalWrite \/ PodExternalWrite

SpecWriters == InitRerun /\ [][NextWriters]_vars

\* the job process under an interrupt signal and the expiry of the wait
NextCancel == JobNext \/ Signal \/ WaitExpires

SpecCancel == Init /\ [][NextCancel]_vars

\* the job process next to the requeue variant of the reconciler
InitRequeue ==
    /\ jd = OneJobDef
    /\ es = EsInit(ReadinessGate, TRUE)
    /\ grp = GrpInit
    /\ job = JobInit
    /\ wt = WtInit
    /\ hist = HistInit
    /\ \E c \in PodConds : pod = PodInit(TRUE, c)
    /\ rec = RecInit
    /\ now = 0

RequeueNext ==
    \/ EsEventUnwatched \/ PodWatchEventRequeue
    \/ ReconcileRequeueStart \/ ReconcileRequeueUpdate

NextRequeue == JobNext \/ RequeueNext \/ PodExternalWrite

SpecRequeue == InitRequeue /\ [][NextRequeue]_vars

\* the job process and the reconciler while the Pod and the target may be
\* deleted
NextDelete == JobNext \/ ReconcilerNext \/ EsDelete \/ PodDelete

SpecDelete == InitRequeue /\ [][NextDelete]_vars

\* the job process of one job definition, the reconciler and the clock
SpecClock == InitRequeue /\ [][Next]_vars

\* the job process and the reconciler for a target that carries no gate
\* annotation, while its Pod declares the gate in its spec
InitNoGate ==
    /\ jd = OneJobDef
    /\ \E sg \in BOOLEAN : es = EsInit(Absent, sg)
    /\ grp = GrpInit
    /\ job = JobInit
    /\ wt = WtInit
    /\ hist = HistInit
    /\ \E c \in PodConds : pod = PodInit(TRUE, c)
    /\ rec = RecInit
    /\ now = 0

NextNoGate == JobNext \/ ReconcilerNext

SpecNoGate == InitNoGate /\ [][NextNoGate]_vars

\* the same target next to the requeue variant of the reconciler
NextNoGateRequeue == JobNext \/ RequeueNext

SpecNoGateRequeue == InitNoGate /\ [][NextNoGateRequeue]_vars

\* the functions of the annotation package applied to an object a caller
\* holds: any annotation map, or no object at all
InitAnnotations ==
    /\ jd = OneJobDef
    /\ es = EsInit(ReadinessGate, TRUE)
    /\ grp = GrpInit
    /\ \E o \in {NoObj} \cup [isNil : {FALSE}, ann : AnnMaps, stale : {FALSE}] :
          job = [JobInit EXCEPT !.obj = o]
    /\ wt = WtInit
    /\ hist = HistInit
    /\ pod = PodInit(TRUE, <<>>)
    /\ rec = RecInit
    /\ now = 0

\* a call of SetPostProvisionComplete on the object
CallSetPostProvisionComplete ==
    /\ hist.annWrites < MaxSetCalls
    /\ job' = [job EXCEPT !.obj = SetPostProvisionComplete(job.obj)]
    /\ hist' = [hist EXCEPT !.annWrites = @ + 1]
    /\ UNCHANGED <<jd, es, grp, wt, pod, rec, now>>

\* a call of SetBootstrapped on the object
CallSetBootstrapped ==
    /\ hist.annWrites < MaxSetCalls
    /\ job' = [job EXCEPT !.obj = SetBootstrapped(job.obj)]
    /\ hist' = [hist EXCEPT !.annWrites = @ + 1]
    /\ UNCHANGED <<jd, es, grp, wt, pod, rec, now>>

NextAnnotations == CallSetPostProvisionComplete \/ CallSetBootstrapped

SpecAnnotations == InitAnnotations /\ [][NextAnnotations]_vars

\* -------------------------------------------------------------- properties
\* the stored target carries the completion annotation
Completed == es.ann[PostProvisionCompleteAnnotation] = "true"
\* the job worker has returned from the named step with an error
FailedIn(stage) == job.pc = "returned" /\ job.stage = stage /\ job.err # NilErr
\* call i was sent and its retry loop is over with a last response that is
\* no success
EndedBadly(i) ==
    hist.attempts[i] > 0 /\ ~hist.good[i] /\ ~(job.pc = "attempt" /\ job.callIdx = i)

\* the Pod's gate condition has the given status
GateIs(status) ==
    \E k \in 1..Len(pod.conds) :
       pod.conds[k].type = ReadinessGate /\ pod.conds[k].status = status

\* C1: in the combined system the Pod's gate condition is True only if every
\* API call of the job definition has completed with a status in its
\* successCodes.
C1_GateTrueOnlyAfterCalls ==
    GateIs("True") => \A i \in 1..Len(jd.apiCalls) : i \in hist.succeeded

\* C2: annotateAsDone runs, and the completion annotation is written, only
\* after issueAPICalls has returned nil for the whole call list; once the
\* health wait, the client resolution or an API call has failed the job has
\* returned an error and the completion annotation is not written.
C2_AnnotateOnlyAfterCalls ==
    /\ (job.pc \in {"annget", "annupdate"} \/ job.stage = "annotate"
           \/ hist.annWrites > 0 \/ Completed)
          => /\ hist.issued = "ok"
             /\ \A i \in 1..Len(jd.apiCalls) : ~EndedBadly(i)
    /\ \A st \in {"start", "wait", "client", "calls"} :
          (job.pc = "returned" /\ job.stage = st)
             => job.err # NilErr /\ hist.annWrites = 0 /\ ~Completed
    /\ (hist.issued = "failed" \/ \E i \in 1..Len(jd.apiCalls) : EndedBadly(i))
          => FailedIn("calls") /\ hist.annWrites = 0 /\ ~Completed

\* the completion annotation is written after every call got a success
C2_Witness ==
    /\ Completed /\ hist.annWrites = 1
    /\ Len(jd.apiCalls) = MaxCalls
    /\ \A i \in 1..Len(jd.apiCalls) : hist.attempts[i] > 0 /\ hist.good[i]

\* C3: the calls are sent in declared order: call j has been sent only if
\* every call before it was sent and ended with a status in its
\* successCodes; once a call has ended in failure the job has returned the
\* error and no later call has been sent.
C3_CallsInOrder ==
    \A j \in 1..Len(jd.apiCalls) :
       /\ hist.attempts[j] > 0
             => \A i \in 1..(j - 1) : hist.attempts[i] > 0 /\ hist.good[i]
       /\ EndedBadly(j)
             => /\ FailedIn("calls")
                /\ \A k \in (j + 1)..Len(jd.apiCalls) : hist.attempts[k] = 0

\* the first call of a longer list has ended in failure and nothing more
\* was sent
C3_Witness ==
    /\ Len(jd.apiCalls) >= 2
    /\ EndedBadly(1) /\ FailedIn("calls")
    /\ hist.attempts[2] = 0

\* C8: a call whose retry flag is false is sent at most once, and when that
\* one attempt fails (transport error or status outside successCodes) the
\* job returns that failure as its error; only a call with retry true is
\* ever sent a second time.
C8_RetryOnlyIfFlagged ==
    \A i \in 1..Len(jd.apiCalls) :
       /\ hist.attempts[i] > 1 => jd.apiCalls[i].retry
       /\ (~jd.apiCalls[i].retry /\ hist.attempts[i] = 1 /\ ~hist.good[i])
             => FailedIn("calls") /\ job.err = hist.lastFailure

\* a call with retry false failed once under a policy that has steps left
C8_Witness ==
    /\ ~jd.clientConf.isNil /\ jd.clientConf.retryAttempts >= 2
    /\ \E i \in 1..Len(jd.apiCalls) :
          /\ ~jd.apiCalls[i].retry
          /\ hist.attempts[i] = 1 /\ ~hist.good[i]
          /\ FailedIn("calls") /\ job.err = hist.lastFailure

\* C9: when a call with retry true has used up the step budget and still
\* fails, the error issueAPICalls returns is the last failure of that call:
\* the transport error or the failing status code of the final attempt.
C9_LastFailureSurfaced ==
    \A i \in 1..Len(jd.apiCalls) :
       (jd.apiCalls[i].retry /\ EndedBadly(i))
          => FailedIn("calls") /\ job.err = hist.lastFailure

\* C10: without a clientConf no call is sent more than once, the retry flag
\* notwithstanding: a failing first attempt ends the job with an error, and
\* a job whose calls all passed has sent each call exactly once.
C10_NilConfSingleAttempt ==
    jd.clientConf.isNil =>
       /\ \A i \in 1..Len(jd.apiCalls) :
             /\ hist.attempts[i] <= 1
             /\ (hist.attempts[i] = 1 /\ ~hist.good[i]) => FailedIn("calls")
       /\ hist.issued = "ok" => \A i \in 1..Len(jd.apiCalls) : hist.attempts[i] = 1

\* without a clientConf a call with retry true failed and ended the job
C10_Witness ==
    /\ jd.clientConf.isNil
    /\ \E i \in 1..Len(jd.apiCalls) :
          /\ jd.apiCalls[i].retry
          /\ hist.attempts[i] = 1 /\ ~hist.good[i]
          /\ FailedIn("calls")

\* C4: a wait whose timeout has expired does not go on blocking:
\* waitForElasticsearch is able to return.
C4_WaitBoundedByTimeout ==
    (Alive /\ job.pc = "wait" /\ wt.expired) => ENABLED WaitReceive

\* C5: once the context of doRun is cancelled, a job worker blocked in the
\* health wait is able to return without a further watch event, and a job
\* worker inside a retry loop sends no further attempt of the call.
C5_CancelAborts ==
    /\ (Alive /\ grp.ctxDone /\ job.pc = "wait") => ENABLED WaitReceive
    /\ ~hist.retriedAfterCancel

\* the job has ended, every watch event is delivered, the work queue is
\* empty and no reconcile is running: nothing further happens to the Pod
Settled ==
    /\ grp.returned
    /\ ~rec.esEvent /\ ~rec.podEvent /\ ~rec.queued /\ rec.pc = "idle"

\* C6: once the system has settled, a Pod of the target that declares the
\* gate has a gate condition whose status is True when the target is
\* complete and False when it is not.
C6_EventuallyConsistent ==
    (Settled /\ es.exists /\ pod.exists /\ pod.labelled /\ pod.specGate)
       => GateIs(IF Completed THEN "True" ELSE "False")

\* C7: no step of the job process, of the reconciler or of a re-run of the
\* job takes the completion annotation of the stored target away from
\* "true".
C7_CompletionSetOnce == [][Completed => Completed']_vars

\* the annotation is written again by a re-run of the job
C7_Witness == Completed /\ grp.runs >= 1 /\ hist.annWrites >= 2

\* C11: when the wait is resolved by the delete event of the target, the
\* job returns the 'resource deleted' error from the wait; a job that
\* returned this error has sent no API call and written no completion
\* annotation.
C11_DeleteResolvesWait ==
    [][ /\ (job.pc = "wait" /\ job'.pc # "wait"
               /\ wt.result # <<>> /\ Head(wt.result) = errResourceDeleted)
           => (job'.pc = "returned" /\ job'.stage = "wait"
                  /\ job'.err = errResourceDeleted)
        /\ (job'.pc = "returned" /\ job'.err = errResourceDeleted)
           => /\ job'.stage = "wait"
              /\ \A i \in 1..MaxCalls : hist'.attempts[i] = 0
              /\ hist'.issued = "none" /\ hist'.annWrites = 0 /\ ~Completed'
      ]_vars

\* the target was deleted during the wait and the job returned the error
C11_Witness ==
    /\ ~es.exists /\ wt.deleteSeen
    /\ job.pc = "returned" /\ job.stage = "wait" /\ job.err = errResourceDeleted

\* the wait has returned without error
WaitSucceeded ==
    \/ job.pc \in {"client", "enter", "attempt", "annget", "annupdate"}
    \/ job.pc = "returned" /\ job.stage \in {"client", "calls", "annotate"}

\* C12: the wait returns success, and a handler holds or has sent a success,
\* only after a health query of an event of the target returned green; an
\* event whose client or health query fails or whose health is not green
\* sends nothing, leaves the waiter waiting and the watch as it was.
C12_OnlyGreenResolves ==
    /\ [](((wt.hpc = "send" /\ wt.hval = NilErr) \/ WaitSucceeded
              \/ (wt.result # <<>> /\ Head(wt.result) = NilErr))
           => wt.sawGreen)
    /\ [][ (wt.hpc = "check" /\ wt'.hpc = "idle")
             => (wt'.result = wt.result /\ wt'.informer = wt.informer
                    /\ wt'.closed = wt.closed /\ job' = job) ]_vars

\* a green health query of an event of the target resolved the wait
C12_Witness ==
    WaitSucceeded /\ wt.sawGreen /\ job.pc = "client"

\* C13: annotateAsDone goes back to a new attempt only after a conflict of
\* its update, each time with one step less of a budget of
\* DefaultRetrySteps and with the object read anew; it returns a conflict
\* only from the attempt that used the last step, and every step out of a
\* Get leads to the update of the object just read or out of the function.
C13_RetryOnConflictOnly ==
    [][ /\ (job.pc = "annupdate" /\ job'.pc = "annget")
           => /\ job.obj.stale /\ es.exists /\ es' = es
              /\ job'.backoff.Steps = job.backoff.Steps - 1
              /\ job'.backoff.Steps >= 1
              /\ job'.obj = NoObj
        /\ (job.pc = "annget" /\ job' # job)
           => \/ job'.pc = "returned" /\ job'.err \notin {NilErr, errConflict}
              \/ /\ job'.pc = "annupdate"
                 /\ job'.obj = [isNil |-> FALSE, ann |-> es.ann, stale |-> FALSE]
        /\ (job'.pc = "annupdate" /\ job.pc # "annupdate") => job.pc = "annget"
        /\ (job.pc # "returned" /\ job'.pc = "returned"
               /\ job'.stage = "annotate" /\ job'.err = errConflict)
           => (job.pc = "annupdate" /\ job.backoff.Steps = 1 /\ job.obj.stale)
        /\ job.pc \in {"annget", "annupdate"}
           => job.backoff.Steps \in 1..DefaultRetrySteps
      ]_vars

\* every attempt of annotateAsDone met a conflict and the conflict was
\* returned
C13_Witness ==
    job.pc = "returned" /\ job.stage = "annotate" /\ job.err = errConflict

\* C14: an update of the job is applied only when its copy of the target is
\* the stored one, and then changes nothing but the completion annotation;
\* a status update of the reconciler is applied only when its copy of the
\* Pod is the stored one, and then leaves the phase another writer set as
\* it is stored.
C14_NoLostUpdate ==
    [][ /\ (hist'.annWrites # hist.annWrites)
           => /\ ~job.obj.stale
              /\ es' = [es EXCEPT !.ann[PostProvisionCompleteAnnotation] = "true"]
        /\ (rec.pc = "update" /\ rec'.pc = "idle" /\ pod' # pod)
           => /\ ~rec.stale
              /\ pod' = [pod EXCEPT !.conds = rec.conds]
      ]_vars

\* both writers were met: the job annotated a target another writer had
\* changed, and the reconciler's update was rejected with a conflict
C14_Witness ==
    /\ Completed /\ es.ann[OtherAnnotation] = "x"
    /\ rec.result = Result(TRUE, NilErr) /\ pod.phase = "Running"

\* the positions of the conditions of the gate type
GateIndexes(conds) == {k \in 1..Len(conds) : conds[k].type = ReadinessGate}
\* exactly one condition of the gate type, and it has the given status
OneGate(conds, status) ==
    \E k \in GateIndexes(conds) : GateIndexes(conds) = {k} /\ conds[k].status = status
\* a condition of the gate type has the given status
HasGate(conds, status) ==
    \E k \in GateIndexes(conds) : conds[k].status = status

\* a step of Reconcile in which both Gets found their object: Reconcile
\* either returns without an error or goes on to the status update
ReconcileDecides ==
    /\ rec.pc = "idle" /\ rec.queued /\ rec' # rec
    /\ rec'.esEvent = rec.esEvent /\ rec'.podEvent = rec.podEvent
    /\ rec'.pc = "update" \/ rec'.result.err = NilErr
    /\ pod.exists /\ pod.labelled /\ es.exists
\* a step in which the status update is applied and Reconcile returns
ReconcileWrites ==
    /\ rec.pc = "update" /\ rec'.pc = "idle"
    /\ ~rec.stale /\ rec'.result.err = NilErr

\* C15: a Reconcile that reads a pending target either hands the status
\* update exactly one gate condition, with status False, or finds it on the
\* Pod and returns the empty result; the applied update leaves the Pod with
\* exactly one gate condition, False, and Reconcile returns the empty result.
C15_PendingSetsFalse ==
    [][ /\ (ReconcileDecides /\ ~Completed)
           => \/ rec'.pc = "update" /\ OneGate(rec'.conds, "False")
              \/ /\ rec'.pc = "idle" /\ rec'.result = Result(FALSE, NilErr)
                 /\ OneGate(pod.conds, "False")
        /\ (ReconcileWrites /\ HasGate(rec.conds, "False"))
           => rec'.result = Result(FALSE, NilErr) /\ OneGate(pod'.conds, "False")
      ]_vars

\* C16: a Reconcile that reads a completed target either hands the status
\* update a gate condition with status True, whether the Pod had none or a
\* False one, or finds it on the Pod and returns the empty result; the
\* applied update leaves the Pod with the gate condition True and Reconcile
\* returns the empty result.
C16_CompleteSetsTrue ==
    [][ /\ (ReconcileDecides /\ Completed)
           => \/ rec'.pc = "update" /\ OneGate(rec'.conds, "True")
              \/ /\ rec'.pc = "idle" /\ rec'.result = Result(FALSE, NilErr)
                 /\ OneGate(pod.conds, "True")
        /\ (ReconcileWrites /\ HasGate(rec.conds, "True"))
           => rec'.result = Result(FALSE, NilErr) /\ OneGate(pod'.conds, "True")
      ]_vars

\* C17: a Reconcile that finds the Pod's only gate condition already at the
\* desired status returns without starting a status update and leaves the
\* Pod as it is.
C17_NoRedundantWrite ==
    [][ (ReconcileDecides /\ OneGate(pod.conds, CondValue(es.ann)))
           => rec'.pc = "idle" /\ pod' = pod ]_vars

\* C18: the conditions Reconcile hands to the status update, and the
\* conditions a step stores on the Pod, change the LastTransitionTime of an
\* existing gate condition only together with its status.
C18_TransitionTimeWithStatus ==
    [][ /\ \A k \in GateIndexes(pod.conds) :
              pod'.conds[k].lastTransitionTime # pod.conds[k].lastTransitionTime
                 => pod'.conds[k].status # pod.conds[k].status
        /\ (rec.pc = "idle" /\ rec'.pc = "update")
           => \A k \in GateIndexes(pod.conds) :
                 rec'.conds[k].lastTransitionTime # pod.conds[k].lastTransitionTime
                    => rec'.conds[k].status # pod.conds[k].status
      ]_vars

\* a run at a later time found the status as desired: the condition was
\* probed again and its transition time is still the old one
C18_Witness ==
    \E k \in GateIndexes(pod.conds) :
       pod.conds[k].lastProbeTime = 1 /\ pod.conds[k].lastTransitionTime = 0

\* C19: a Reconcile that finds the Pod or the target missing, with no other
\* failure of the client, returns the empty result and no error, is not
\* queued again, and writes nothing.
C19_MissingIsNoOp ==
    [][ ( /\ rec.pc = "idle" /\ rec.queued /\ rec' # rec
          /\ rec'.esEvent = rec.esEvent /\ rec'.podEvent = rec.podEvent
          /\ ~pod.exists \/ ~es.exists
          /\ rec'.result.err # errAPI )
           => /\ rec'.pc = "idle" /\ rec'.result = Result(FALSE, NilErr)
              /\ ~rec'.queued
              /\ pod' = pod /\ es' = es ]_vars

\* C20: when Reconcile returns from its status update, a rejection by a
\* conflict gives the requeue result with no error and leaves the Pod as
\* stored; any error that is returned comes without a requeue result and
\* without a write, and Reconcile does not start the update again itself.
C20_ConflictRequeues ==
    [][ (rec.pc = "update" /\ rec'.pc # "update")
           => /\ rec'.pc = "idle"
              /\ (rec.stale /\ pod.exists /\ rec'.result.err # errAPI)
                    => rec'.result = Result(TRUE, NilErr) /\ pod' = pod
              /\ rec'.result.err # NilErr
                    => ~rec'.result.requeue /\ pod' = pod /\ rec'.queued
      ]_vars

\* C21: a Reconcile that reads a target without a gate annotation starts no
\* status update, leaves the Pod as it is, and returns the empty result
\* without an error and without being queued again.
C21_NoGateNoAction ==
    [][ (ReconcileDecides /\ GetPostProvisionReadinessGate(es.ann) = "")
           => /\ rec'.pc = "idle" /\ rec'.result = Result(FALSE, NilErr)
              /\ ~rec'.queued /\ pod' = pod ]_vars

\* the type and status of every condition, in order
TypeStatus(conds) ==
    [k \in 1..Len(conds) |-> <<conds[k].type, conds[k].status>>]

\* C22: whatever conditions the Pod has, a run of Reconcile after another
\* run gives the conditions, by type and status, that the later run alone
\* gives; the update a run starts carries
\* exactly one gate condition, with the status of the target it read, and an
\* applied update stores these conditions.
C22_IdempotentAssignment ==
    /\ [](\A v1, v2 \in {"True", "False"} :
             TypeStatus(ReconcileConditions(ReconcileConditions(pod.conds, v1, 0), v2, now))
                = TypeStatus(ReconcileConditions(pod.conds, v2, now)))
    /\ [][ /\ (rec.pc = "idle" /\ rec'.pc = "update")
              => OneGate(rec'.conds, CondValue(es.ann))
           /\ ReconcileWrites => TypeStatus(pod'.conds) = TypeStatus(rec.conds)
         ]_vars

\* a second run at a later time found the completed target again and left
\* the gate condition True
C22_Witness ==
    /\ OneGate(pod.conds, "True") /\ Completed /\ rec.pc = "idle" /\ ~rec.queued
    /\ \E k \in GateIndexes(pod.conds) :
          pod.conds[k].lastProbeTime > pod.conds[k].lastTransitionTime

\* the gate annotation of the post-provision instance is absent or empty
NoPostProvisionGate(ann) == ann[PostProvisionReadinessGateAnnotation] \in {Absent, ""}
\* the gate annotation of the bootstrap instance is absent or empty
NoBootstrapGate(ann) == ann[BootstrapReadinessGateAnnotation] \in {Absent, ""}

\* C23: IsBootstrapped and both IsPostProvisionComplete functions are true
\* exactly when the gate annotation is absent or empty, whatever the
\* completion annotation holds, or the completion annotation is "true".
C23_IsCompleteByGate ==
    /\ IsBootstrapped(job.obj.ann)
          = (NoBootstrapGate(job.obj.ann) \/ job.obj.ann[BootstrappedAnnotation] = "true")
    /\ IsPostProvisionCompleteGated(job.obj.ann)
          = (NoPostProvisionGate(job.obj.ann)
               \/ job.obj.ann[PostProvisionCompleteAnnotation] = "true")
    /\ IsPostProvisionComplete(job.obj.ann)
          = (NoPostProvisionGate(job.obj.ann)
               \/ job.obj.ann[PostProvisionCompleteAnnotation] = "true")

\* C24: IsPostProvisionComplete of annotation/postprovision.go is true
\* exactly when the completion annotation is "true"; false for an object
\* without annotations and for every other value.
C24_TrueOnlyForTrue ==
    /\ IsPostProvisionComplete(job.obj.ann)
          = (job.obj.ann[PostProvisionCompleteAnnotation] = "true")
    /\ ~IsPostProvisionComplete(NoAnnotations)

\* SetPostProvisionComplete was called on an object that did not carry
\* the annotation "true" before
C24_Witness ==
    /\ hist.annWrites = 1 /\ ~job.obj.isNil
    /\ job.obj.ann[BootstrappedAnnotation] = "false"
    /\ IsPostProvisionComplete(job.obj.ann)

\* C25: SetBootstrapped and SetPostProvisionComplete applied twice leave
\* what one application leaves; on an object they set the completion
\* annotation to "true" and change no other key, so that a nil annotation
\* map becomes a map with exactly that entry; a nil object stays as it is.
C25_SetCompleteIdempotent ==
    LET o == job.obj
        empty == [isNil |-> FALSE, ann |-> NoAnnotations, stale |-> FALSE]
    IN /\ SetPostProvisionComplete(SetPostProvisionComplete(o)) = SetPostProvisionComplete(o)
       /\ SetBootstrapped(SetBootstrapped(o)) = SetBootstrapped(o)
       /\ ~o.isNil =>
             /\ SetPostProvisionComplete(o).ann[PostProvisionCompleteAnnotation] = "true"
             /\ SetBootstrapped(o).ann[BootstrappedAnnotation] = "true"
             /\ \A k \in AnnKeys \ {PostProvisionCompleteAnnotation} :
                   SetPostProvisionComplete(o).ann[k] = o.ann[k]
             /\ \A k \in AnnKeys \ {BootstrappedAnnotation} :
                   SetBootstrapped(o).ann[k] = o.ann[k]
       /\ AnnLen(SetPostProvisionComplete(empty).ann) = 1
       /\ AnnLen(SetBootstrapped(empty).ann) = 1
       /\ o.isNil => SetPostProvisionComplete(o) = o /\ SetBootstrapped(o) = o

\* SetPostProvisionComplete was called twice on an object with a nil
\* annotation map, which now holds exactly the completion entry
C25_Witness ==
    /\ hist.annWrites = 2 /\ ~job.obj.isNil
    /\ job.obj.ann = [NoAnnotations EXCEPT ![PostProvisionCompleteAnnotation] = "true"]

\* C26: SetBootstrapped changes neither the post-provision gate nor the
\* result of either IsPostProvisionComplete; SetPostProvisionComplete
\* changes neither the bootstrap gate nor the result of IsBootstrapped.
C26_InstancesIndependent ==
    LET o == job.obj
        b == SetBootstrapped(o).ann
        c == SetPostProvisionComplete(o).ann
    IN /\ GetPostProvisionReadinessGate(b) = GetPostProvisionReadinessGate(o.ann)
       /\ IsPostProvisionCompleteGated(b) = IsPostProvisionCompleteGated(o.ann)
       /\ IsPostProvisionComplete(b) = IsPostProvisionComplete(o.ann)
       /\ GetBootstrapReadinessGate(c) = GetBootstrapReadinessGate(o.ann)
       /\ IsBootstrapped(c) = IsBootstrapped(o.ann)

\* SetBootstrapped was called on an object whose post-provision gate is set
\* and whose post-provision is not complete, and it still is not
C26_Witness ==
    /\ hist.annWrites >= 1 /\ ~job.obj.isNil
    /\ job.obj.ann[BootstrappedAnnotation] = "true"
    /\ job.obj.ann[BootstrapReadinessGateAnnotation] = Absent
    /\ GetPostProvisionReadinessGate(job.obj.ann) = "mygate"
    /\ ~IsPostProvisionCompleteGated(job.obj.ann)

\* C27: for every call of the job definition and every status code,
\* IsSuccessful is true exactly when the code is an element of the call's
\* successCodes, and false for every code when successCodes is empty.
C27_IsSuccessfulIsMembership ==
    \A i \in 1..Len(jd.apiCalls) : \A code \in StatusCodes \cup {0, 500} :
       LET ac == jd.apiCalls[i] IN
       /\ IsSuccessful(ac, code)
             = (code \in {ac.successCodes[k] : k \in DOMAIN ac.successCodes})
       /\ ac.successCodes = <<>> => ~IsSuccessful(ac, code)

\* a call with empty successCodes got the response 200 and its loop ended
\* with that failure
C27_Witness ==
    /\ Len(jd.apiCalls) >= 1 /\ jd.apiCalls[1].successCodes = <<>>
    /\ hist.outcome[1] = "failed" /\ hist.lastFailure = errStatusCode(200)

\* the clientConf values ToBackoff is checked on, beyond those of the job
\* definitions
WideClientConfs ==
    [isNil : {FALSE}, retryAttempts : 0..(MaxRetryAttempts + 1),
     retryBackoff : 0..2, retryMaxDuration : 0..2]

\* C28: ToBackoff gives a nil clientConf exactly one step, and a present
\* clientConf Steps = retryAttempts, Duration = retryBackoff, Factor = 2,
\* Jitter = 0.5 and Cap = retryMaxDuration; the retry loop of every call
\* starts from that policy.
C28_ToBackoffFields ==
    /\ ToBackoff(NilClientConf).Steps = 1
    /\ \A cc \in WideClientConfs \cup {jd.clientConf} :
          ~cc.isNil =>
             LET b == ToBackoff(cc) IN
             /\ b.Steps = cc.retryAttempts /\ b.Duration = cc.retryBackoff
             /\ b.Factor = 2 /\ b.Jitter = 50 /\ b.Cap = cc.retryMaxDuration
    /\ (job.pc = "attempt" /\ hist.attempts[job.callIdx] = 0 /\ ~jd.clientConf.isNil)
          => /\ job.backoff.Steps = jd.clientConf.retryAttempts
             /\ job.backoff.Duration = jd.clientConf.retryBackoff
             /\ job.backoff.Cap = jd.clientConf.retryMaxDuration

\* the first attempt of a call is about to be made under a policy derived
\* from a clientConf with a cap
C28_Witness ==
    /\ job.pc = "attempt" /\ hist.attempts[job.callIdx] = 0
    /\ ~jd.clientConf.isNil /\ jd.clientConf.retryMaxDuration = 1
    /\ job.backoff.Steps = MaxRetryAttempts /\ job.backoff.Cap = 1

\* --------------------------------------------------------------------- Load
\* strings are sequences of characters; " " is white space
Strings == {<<>>, <<" ">>, <<"a">>, <<" ", "a", " ">>}

RECURSIVE TrimLeft(_)
TrimLeft(s) == IF s # <<>> /\ Head(s) = " " THEN TrimLeft(Tail(s)) ELSE s

RECURSIVE TrimRight(_)
TrimRight(s) ==
    IF s # <<>> /\ s[Len(s)] = " " THEN TrimRight(SubSeq(s, 1, Len(s) - 1)) ELSE s

\* strings.TrimSpace
TrimSpace(s) == TrimRight(TrimLeft(s))

isEmpty(s) == TrimSpace(s) = <<>>

ResourceKindElasticsearch == "Elasticsearch"
KnownMethods == {"GET", "HEAD", "POST", "PUT", "PATCH", "DELETE"}

\* the values a document gives to target.kind and to apiCalls[i].method;
\* Absent: the key is not in the document
FileKinds == {Absent, ResourceKindElasticsearch, "Kibana"}
FileMethods == {Absent, "GET", "DELETE", "FETCH"}
FileCalls == [method : FileMethods, path : Strings]
FileCallLists == UNION {[1..n -> FileCalls] : n \in 0..MaxCalls}

\* a stream that is not a document at all
MalformedFile ==
    [wellFormed |-> FALSE, kindFirst |-> FALSE, kind |-> Absent,
     name |-> <<>>, namespace |-> <<>>, apiCalls |-> <<>>]
\* the streams handed to Load; kindFirst: the target key comes before the
\* apiCalls key in the document (possible in JSON; the conversion of YAML
\* sorts the keys, apiCalls first)
Files ==
    {MalformedFile} \cup
    [wellFormed : {TRUE}, kindFirst : BOOLEAN, kind : FileKinds,
     name : Strings, namespace : Strings, apiCalls : FileCallLists]

\* one entry of an error's description
Violation(field, idx) == [field |-> field, idx |-> idx]

errDecode == Err("failed to decode job definition", 0)
errInvalidJobDef == Err("invalid job definition", 0)
errUnhandledKind == Err("unhandled resource type", 0)

NilJobDef == [isNil |-> TRUE, kind |-> "", name |-> <<>>, namespace |-> <<>>, apiCalls |-> <<>>]

\* ResourceKind.UnmarshalJSON: the error for a key that is present
KindUnmarshalJSON(v) ==
    IF v # ResourceKindElasticsearch THEN <<Violation("kind", 0)>> ELSE <<>>

\* APIMethod.UnmarshalJSON: the error for the method key of call i
MethodUnmarshalJSON(v, i) ==
    IF v \notin KnownMethods THEN <<Violation("method", i)>> ELSE <<>>

RECURSIVE MethodErrors(_, _)
MethodErrors(calls, i) ==
    IF i > Len(calls) THEN <<>>
    ELSE (IF calls[i].method = Absent THEN <<>>
          ELSE MethodUnmarshalJSON(calls[i].method, i))
         \o MethodErrors(calls, i + 1)

\* the errors the UnmarshalJSON methods would return, in document order; the
\* decoder calls UnmarshalJSON only for a key that is present
UnmarshalErrors(f) ==
    LET kindErr == IF f.kind = Absent THEN <<>> ELSE KindUnmarshalJSON(f.kind)
        methErrs == MethodErrors(f.apiCalls, 1)
    IN  IF f.kindFirst THEN kindErr \o methErrs ELSE methErrs \o kindErr

\* the zero value of a key that is not in the document
ZeroIfAbsent(v) == IF v = Absent THEN "" ELSE v

\* d.Decode(jobDef): the decoder stops at the first error
Decode(f) ==
    IF ~f.wellFormed
    THEN [def |-> NilJobDef, err |-> errDecode, errDesc |-> <<Violation("stream", 0)>>]
    ELSE IF UnmarshalErrors(f) # <<>>
    THEN [def |-> NilJobDef, err |-> errDecode, errDesc |-> <<Head(UnmarshalErrors(f))>>]
    ELSE [def |-> [isNil |-> FALSE, kind |-> ZeroIfAbsent(f.kind), name |-> f.name,
                   namespace |-> f.namespace,
                   apiCalls |-> [i \in 1..Len(f.apiCalls) |->
                                   [method |-> ZeroIfAbsent(f.apiCalls[i].method),
                                    path |-> f.apiCalls[i].path]]],
          err |-> NilErr, errDesc |-> <<>>]

RECURSIVE PathErrors(_, _)
PathErrors(calls, i) ==
    IF i > Len(calls) THEN <<>>
    ELSE (IF isEmpty(calls[i].path) THEN <<Violation("path", i)>> ELSE <<>>)
         \o PathErrors(calls, i + 1)

\* validate: errDesc, empty when validate returns nil
validate(def) ==
    (IF isEmpty(def.name) THEN <<Violation("name", 0)>> ELSE <<>>)
    \o (IF isEmpty(def.namespace) THEN <<Violation("namespace", 0)>> ELSE <<>>)
    \o PathErrors(def.apiCalls, 1)

\* Load: the definition, the error and the description the error carries
LoadResult(f) ==
    LET d == Decode(f) IN
    IF d.err # NilErr THEN d
    ELSE IF validate(d.def) # <<>>
    THEN [def |-> NilJobDef, err |-> errInvalidJobDef, errDesc |-> validate(d.def)]
    ELSE d

\* doRun up to the start of the job: the stream, what Load returned for it,
\* and the error Run returns before it creates a client
InitLoad ==
    /\ \E f \in Files :
          jd = [file |-> f, pc |-> "load", def |-> NilJobDef, err |-> NilErr,
                errDesc |-> <<>>]
    /\ es = EsInit(ReadinessGate, TRUE)
    /\ grp = GrpInit
    /\ job = JobInit
    /\ wt = WtInit
    /\ hist = HistInit
    /\ pod = PodInit(TRUE, <<>>)
    /\ rec = RecInit
    /\ now = 0

\* jd, err := bootstrap.Load(r)
Load ==
    /\ jd.pc = "load"
    /\ LET r == LoadResult(jd.file) IN
       jd' = [jd EXCEPT !.pc = IF r.err = NilErr THEN "run" ELSE "done",
                        !.def = r.def, !.err = r.err, !.errDesc = r.errDesc]
    /\ UNCHANGED <<es, grp, job, wt, hist, pod, rec, now>>

\* Run: the check of the kind of the target
RunKind ==
    /\ jd.pc = "run"
    /\ jd' = [jd EXCEPT !.pc = IF jd.def.kind # ResourceKindElasticsearch
                               THEN "done" ELSE "job",
                        !.err = IF jd.def.kind # ResourceKindElasticsearch
                                THEN errUnhandledKind ELSE NilErr]
    /\ UNCHANGED <<es, grp, job, wt, hist, pod, rec, now>>

NextLoad == Load \/ RunKind

SpecLoad == InitLoad /\ [][NextLoad]_vars

\* C29: Load returns an error and no definition for every input whose
\* target.kind is not "Elasticsearch", whose target.name or target.namespace
\* is blank, one of whose paths is blank or one of whose methods is not one
\* of the six verbs, and returns the parsed definition only for the others.
C29_LoadRejectsInvalid ==
    jd.pc # "load" =>
       LET f == jd.file
           invalid ==
              \/ ~f.wellFormed
              \/ f.kind # ResourceKindElasticsearch
              \/ isEmpty(f.name)
              \/ isEmpty(f.namespace)
              \/ \E i \in 1..Len(f.apiCalls) :
                    \/ isEmpty(f.apiCalls[i].path)
                    \/ f.apiCalls[i].method \notin KnownMethods
       IN  /\ invalid <=> jd.def.isNil
           /\ jd.def.isNil <=> jd.err \in {errDecode, errInvalidJobDef}

\* C30: the error Load returns for a well-formed definition names every
\* structural violation of the definition, not only the first one met.
C30_AllViolationsReported ==
    (jd.pc # "load" /\ jd.file.wellFormed) =>
       LET f == jd.file
           all == UnmarshalErrors(f) \o validate(f)
       IN  {jd.errDesc[k] : k \in DOMAIN jd.errDesc} = {all[k] : k \in DOMAIN all}

\* C31: of the two workers of doRun the first to report decides the outcome
\* and cancels the context of the other: the job's success gives exit
\* success, the job's error or the interrupt error is returned as it is, a
\* later report changes nothing; and once the job worker has finished the
\* signal worker is able to return and then doRun returns.
C31_FirstFinisherDecides ==
    /\ [](job.pc = "returned" /\ ~grp.returned
            => /\ ~grp.panicked /\ grp.ctxDone
               /\ grp.sigWorker = "running" => ENABLED SigWorkerReturn
               /\ grp.sigWorker = "done" => ENABLED DoRunReturn)
    /\ [][ /\ (job.pc # "returned" /\ job'.pc = "returned" /\ grp.err = NilErr)
              => /\ grp'.ctxDone
                 /\ grp'.err = IF job'.err = NilErr THEN errJobSucceeded ELSE job'.err
           /\ (grp.sigWorker = "running" /\ grp'.sigWorker = "done" /\ grp.err = NilErr)
              => grp'.ctxDone /\ grp'.err = errInterrupted
           /\ grp.err # NilErr => grp'.err = grp.err
           /\ (~grp.returned /\ grp'.returned)
              => /\ job.pc = "returned" /\ grp.sigWorker = "done"
                 /\ grp'.exit = IF grp.err = errJobSucceeded THEN NilErr ELSE grp.err
         ]_vars

\* C32: once an event of the target was answered with green health and
\* every call of the definition has ended with a status in its successCodes,
\* and as long as the annotation update has not run out of conflict retries
\* and met no other API failure, the job process is not dead and not stuck:
\* it can take a further step until doRun has returned, and a job worker
\* that has returned has stored the completion annotation "true" and made
\* doRun return success.
C32_GreenAndGoodCallsComplete ==
    LET callsOk == \A i \in 1..Len(jd.apiCalls) : i \in hist.succeeded /\ hist.good[i]
        annotateFailed ==
           job.pc = "returned" /\ job.err \in {errConflict, errAPI, errNotFound}
    IN  (wt.sawGreen /\ hist.issued = "ok" /\ callsOk /\ es.exists /\ ~annotateFailed)
           => /\ ~grp.panicked
              /\ job.pc = "returned" => job.err = NilErr /\ Completed
              /\ grp.returned => grp.exit = NilErr /\ Completed
              /\ ~grp.returned => ENABLED JobNext

\* C33: a call of waitForElasticsearch starts its watch once, at its head,
\* and never again; in every state after the call has returned the context
\* of the watch is done: a running informer is able to stop, it is not
\* started again, and a health check still in flight sends no result.
C33_WatchEndsWithWait ==
    /\ [](wt.returned
            => /\ WaitCtxDone
               /\ (Alive /\ wt.informer = "running") => ENABLED InformerStop)
    /\ [][ /\ (wt.informer # "running" /\ wt'.informer = "running")
              => wt.informer = "none" /\ job.pc = "start" /\ job'.pc = "wait"
           /\ (wt.returned /\ wt'.returned)
              => /\ wt'.informer \in {wt.informer, "stopped"}
                 /\ wt.hpc = "check" => wt'.hpc # "send"
         ]_vars

\* the wait has returned a success and its informer has stopped
C33_Witness ==
    /\ wt.returned /\ wt.informer = "stopped"
    /\ job.pc = "client" /\ ~grp.ctxDone

\* ------------------------------------------------------ getElasticsearchURL
\* the readiness gates of one node set's Pod template, as condition types
GateLists == {<<>>, <<ReadinessGate>>, <<PodReady>>, <<PodReady, ReadinessGate>>}
NodeSetLists ==
    {<<>>} \cup [1..1 -> GateLists] \cup [1..2 -> GateLists]
PodPhases == {"Pending", "Running"}
PodIPs == {"", "10.0.0.1", "10.0.0.2"}
PodItems == [phase : PodPhases, ip : PodIPs]
PodLists == UNION {[1..n -> PodItems] : n \in 0..MaxPods}

\* hasReadinessGate
hasReadinessGate(nodeSets) ==
    \E i \in 1..Len(nodeSets) : \E k \in 1..Len(nodeSets[i]) :
       nodeSets[i][k] = ReadinessGate

\* es.Spec.HTTP.Protocol()
Protocol(tls) == IF tls THEN "https" ELSE "http"

\* services.ExternalServiceURL: the address of the cluster's HTTP service
ExternalServiceURL(tls) == <<Protocol(tls), "://", "es-http.svc", ":", HTTPPort>>

\* fmt.Sprintf("%s://%s:%d", protocol, p.Status.PodIP, network.HTTPPort)
PodURL(tls, ip) == <<Protocol(tls), "://", ip, ":", HTTPPort>>

errListPods == Err("failed to list Elasticsearch pods", 0)

RECURSIVE FirstAvailableAnyPhase(_)
FirstAvailableAnyPhase(pods) ==
    IF pods = <<>> THEN <<>>
    ELSE IF Head(pods).ip # "" THEN <<Head(pods)>>
    ELSE FirstAvailableAnyPhase(Tail(pods))

\* the loop over podList.Items: the first Pod that is Running and has an IP,
\* as a list of at most one Pod
RECURSIVE FirstAvailable(_)
FirstAvailable(pods) ==
    IF pods = <<>> THEN <<>>
    ELSE IF Head(pods).phase = "Running" /\ Head(pods).ip # "" THEN <<Head(pods)>>
    ELSE FirstAvailable(Tail(pods))

\* getElasticsearchURL for a target [nodeSets, tls], the Pods List returns
\* for it, and whether List fails
getElasticsearchURL(target, pods, listFails) ==
    IF ~hasReadinessGate(target.nodeSets)
    THEN [url |-> ExternalServiceURL(target.tls), err |-> NilErr]
    ELSE IF listFails THEN [url |-> <<>>, err |-> errListPods]
    ELSE IF FirstAvailable(pods) # <<>>
    THEN [url |-> PodURL(target.tls, FirstAvailable(pods)[1].ip), err |-> NilErr]
    ELSE [url |-> <<>>, err |-> errNoAvailablePods]

\* a caller of getElasticsearchURL: its arguments, the state of the store it
\* lists, and what the call returned
InitURL ==
    /\ \E ns \in NodeSetLists, tls \in BOOLEAN, pods \in PodLists, lf \in BOOLEAN :
          jd = [target |-> [nodeSets |-> ns, tls |-> tls], pods |-> pods,
                listFails |-> lf, pc |-> "call", url |-> <<>>, err |-> NilErr]
    /\ es = EsInit(ReadinessGate, TRUE)
    /\ grp = GrpInit
    /\ job = JobInit
    /\ wt = WtInit
    /\ hist = HistInit
    /\ pod = PodInit(TRUE, <<>>)
    /\ rec = RecInit
    /\ now = 0

\* url, err := getElasticsearchURL(ctx, k8sclient, jd, es)
CallGetElasticsearchURL ==
    /\ jd.pc = "call"
    /\ LET r == getElasticsearchURL(jd.target, jd.pods, jd.listFails) IN
       jd' = [jd EXCEPT !.pc = "returned", !.url = r.url, !.err = r.err]
    /\ UNCHANGED <<es, grp, job, wt, hist, pod, rec, now>>

NextURL == CallGetElasticsearchURL

SpecURL == InitURL /\ [][NextURL]_vars

\* C34: getElasticsearchURL returns the service address when no node set
\* declares the gate; otherwise, for the Pods that List returned, the address
\* made of the target's scheme, the IP of the first Pod that is Running with
\* a non-empty IP and the HTTP port, and the no-available-pods error when no
\* listed Pod qualifies.
C34_URLOfFirstAvailablePod ==
    jd.pc = "returned" =>
       LET gated == \E i \in DOMAIN jd.target.nodeSets :
                       ReadinessGate \in {jd.target.nodeSets[i][k] :
                                             k \in DOMAIN jd.target.nodeSets[i]}
           ok == {k \in DOMAIN jd.pods :
                     jd.pods[k].phase = "Running" /\ jd.pods[k].ip # ""}
           scheme == IF jd.target.tls THEN "https" ELSE "http"
       IN  /\ ~gated => jd.err = NilErr /\ jd.url = ExternalServiceURL(jd.target.tls)
           /\ (gated /\ ~jd.listFails /\ ok # {})
                 => /\ jd.err = NilErr
                    /\ \E k \in ok :
                          /\ \A j \in ok : k <= j
                          /\ jd.url = <<scheme, "://", jd.pods[k].ip, ":", 9200>>
           /\ (gated /\ ~jd.listFails /\ ok = {})
                 => jd.err = errNoAvailablePods /\ jd.url = <<>>

\* the second listed Pod is the first that qualifies: the first one has an
\* IP but is not Running
C34_Witness ==
    /\ jd.pc = "returned" /\ hasReadinessGate(jd.target.nodeSets) /\ ~jd.listFails
    /\ Len(jd.pods) = 2
    /\ jd.pods[1].phase = "Pending" /\ jd.pods[1].ip = "10.0.0.1"
    /\ jd.pods[2].phase = "Running" /\ jd.pods[2].ip = "10.0.0.2"
    /\ jd.url = PodURL(jd.target.tls, "10.0.0.2")

\* C35: issueAPICalls has returned nil, or the completion annotation is
\* written, only if every call of the definition was sent at least once and
\* its last response had a status in its successCodes, whatever the
\* clientConf.
C35_SuccessMeansAllCallsSent ==
    (hist.issued = "ok" \/ hist.annWrites > 0 \/ Completed)
       => \A i \in 1..Len(jd.apiCalls) : hist.attempts[i] >= 1 /\ hist.good[i]

\* C36: with a clientConf present no call is sent more often than
\* retryAttempts times; a call with retry true whose retry loop is over
\* without a success was sent exactly retryAttempts times and issueAPICalls
\* has returned an error; a call whose loop ended in success got no attempt
\* after the successful one.
C36_ExactlyRetryAttempts ==
    ~jd.clientConf.isNil =>
       \A i \in 1..Len(jd.apiCalls) :
          /\ hist.attempts[i] <= jd.clientConf.retryAttempts
          /\ (jd.apiCalls[i].retry /\ hist.outcome[i] \in {"failed", "skipped"}
                 /\ i \notin hist.succeeded)
                => /\ hist.attempts[i] = jd.clientConf.retryAttempts
                   /\ FailedIn("calls")
          /\ hist.outcome[i] = "ok" => hist.attempts[i] >= 1 /\ hist.good[i]

\* C37: no handler sends on the result channel after the wait has returned
\* and closed it: no send on the closed channel has happened, no handler
\* stands at its send with the channel closed, and the channel never holds
\* more than one result.
C37_NoSendOnClosedChannel ==
    /\ ~grp.panicked
    /\ ~(wt.hpc = "send" /\ wt.closed)
    /\ Len(wt.result) <= 1

\* C38: the Pod, which starts with at most one condition of the gate type,
\* never has more than one, whatever runs of Reconcile and changes of the
\* target happen; the conditions a run hands to the status update are longer
\* than the Pod's only when the Pod has no gate condition.
C38_AtMostOneGateCondition ==
    /\ [](Cardinality(GateIndexes(pod.conds)) <= 1)
    /\ [][ (rec.pc = "idle" /\ rec'.pc = "update")
              => /\ Cardinality(GateIndexes(rec'.conds)) <= 1
                 /\ Len(rec'.conds) > Len(pod.conds) => GateIndexes(pod.conds) = {}
         ]_vars

\* the gate condition was appended behind another condition and a later run
\* found it there
C38_Witness ==
    /\ Len(pod.conds) = 2 /\ pod.conds[1].type = PodReady
    /\ GateIndexes(pod.conds) = {2}
    /\ pod.conds[2].lastProbeTime > pod.conds[2].lastTransitionTime

\* C39: a step in which the reconciler's status update is applied leaves the
\* Pod's existence, labels, spec and phase as they are, keeps every
\* condition that is not of the gate type as it is, in its place, and adds
\* nothing but a gate condition; the stored target changes only in steps
\* that are no step of the reconciler.
C39_ReconcileWritesGateOnly ==
    [][ /\ (rec.pc = "update" /\ rec'.pc = "idle")
           => /\ pod'.exists = pod.exists /\ pod'.labelled = pod.labelled
              /\ pod'.specGate = pod.specGate /\ pod'.phase = pod.phase
              /\ Len(pod'.conds) >= Len(pod.conds)
              /\ \A k \in 1..Len(pod.conds) :
                    /\ pod'.conds[k].type = pod.conds[k].type
                    /\ pod.conds[k].type # ReadinessGate => pod'.conds[k] = pod.conds[k]
              /\ \A k \in (Len(pod.conds) + 1)..Len(pod'.conds) :
                    pod'.conds[k].type = ReadinessGate
        /\ es' # es
           => /\ rec'.pc = rec.pc /\ rec'.queued = rec.queued
              /\ rec'.result = rec.result /\ rec'.conds = rec.conds
      ]_vars

\* the gate condition was appended, set to True, behind a condition of
\* another type, which is as it was
C39_Witness ==
    /\ Len(pod.conds) = 2 /\ pod.conds[1] = Cond(PodReady, "False", 0, 0)
    /\ pod.conds[2].type = ReadinessGate /\ pod.conds[2].status = "True"
    /\ Completed

\* C40: a call of SetPostProvisionComplete or SetBootstrapped on an object
\* changes the completion annotation of its instance and no other key: the
\* gate annotations are as before, GetPostProvisionReadinessGate and
\* GetBootstrapReadinessGate return what they returned before, and the
\* IsComplete function of the instance is true after the call.
C40_SetCompleteFrame ==
    [][ (hist'.annWrites = hist.annWrites + 1 /\ ~job.obj.isNil)
           => LET a == job.obj.ann
                  b == job'.obj.ann
              IN  /\ GetPostProvisionReadinessGate(b) = GetPostProvisionReadinessGate(a)
                  /\ GetBootstrapReadinessGate(b) = GetBootstrapReadinessGate(a)
                  /\ \/ /\ \A k \in AnnKeys \ {PostProvisionCompleteAnnotation} : b[k] = a[k]
                        /\ b[PostProvisionCompleteAnnotation] = "true"
                        /\ IsPostProvisionCompleteGated(b)
                     \/ /\ \A k \in AnnKeys \ {BootstrappedAnnotation} : b[k] = a[k]
                        /\ b[BootstrappedAnnotation] = "true"
                        /\ IsBootstrapped(b)
      ]_vars

\* SetPostProvisionComplete was called on an object with a gate, another
\* annotation and a completion annotation that was not "true"
C40_Witness ==
    /\ hist.annWrites = 1 /\ ~job.obj.isNil
    /\ job.obj.ann[PostProvisionReadinessGateAnnotation] = "mygate"
    /\ job.obj.ann[OtherAnnotation] = "x"
    /\ job.obj.ann[BootstrappedAnnotation] = "rubbish"
    /\ job.obj.ann[PostProvisionCompleteAnnotation] = "true"

====
